---- MODULE Spec2Model ----
(***************************************************************************)
(* Prinjekt configurator: the viewer's camera fit and the state around it. *)
(*                                                                         *)
(* Two programs live in the repository and both are modelled here, chosen  *)
(* by the variable impl:                                                   *)
(*   "headless" - the master logic library (class PrinjektConfigurator     *)
(*                with _fitCameraToModel, handleResize, loadModel, ...)    *)
(*   "asset"    - assets/configurator.js (fitCameraToModel, onWindowResize,*)
(*                loadSTLModel, updatePreview, ...)                        *)
(*                                                                         *)
(* Lengths are fixed-point numbers in hundredths of a world unit, the      *)
(* tangent of half the field of view in ten-thousandths.  A viewport is    *)
(* the pair clientWidth, clientHeight; an aspect ratio is kept as the pair *)
(* it was computed from, so that 0/0 (NaN), 0/h (zero) and w/0 (Infinity)  *)
(* stay distinguishable as they are in JavaScript.                         *)
(***************************************************************************)
EXTENDS Integers, Sequences, FiniteSets, TLC

\* ------------------------------------------------------------------ bounds
\* parameter values range over 1..MaxParamValue
MaxParamValue == 2
\* the count of consecutive fit calls is followed up to this number
MaxFitsInRow == 2
\* initialize() registers a resize listener and starts a render loop at most
\* this many times
MaxInitializeCalls == 2
\* at most this many button resets of the asset's page are pending at a time
MaxResetTimers == 2

\* ------------------------------------------------------- program constants
\* part_000:187  new PerspectiveCamera(45, aspect, 0.1, 1000)
HeadlessFov == 45
\* configurator.js:103  new PerspectiveCamera(50, ...)
AssetFov == 50
\* part_000:1069 / configurator.js:538   cameraZ *= 1.5   (3/2)
PaddingNum == 3
PaddingDen == 2
\* configurator.js:162-163  controls.minDistance = 50; controls.maxDistance = 500
minDistance == 50
maxDistance == 500
\* configurator.js:502  scale = 100 / maxDim
AssetTargetSize == 100
\* far plane of both cameras (world units); the near plane is 0.1
CameraFar == 1000

\* ------------------------------------------------------------- arithmetic
Units(n) == n * 100
Abs(x) == IF x < 0 THEN -x ELSE x
Max2(a, b) == IF a >= b THEN a ELSE b
Min2(a, b) == IF a <= b THEN a ELSE b
Sign(x) == IF x < 0 THEN -1 ELSE 1
\* division rounding toward zero, as a float division followed by display would
DivT(a, b) == Sign(a) * Sign(b) * (Abs(a) \div Abs(b))

Zero3 == <<0, 0, 0>>
Add3(a, b) == <<a[1] + b[1], a[2] + b[2], a[3] + b[3]>>
Sub3(a, b) == <<a[1] - b[1], a[2] - b[2], a[3] - b[3]>>
Dot3(a, b) == a[1] * b[1] + a[2] * b[2] + a[3] * b[3]
Cross3(a, b) == <<a[2] * b[3] - a[3] * b[2],
                  a[3] * b[1] - a[1] * b[3],
                  a[1] * b[2] - a[2] * b[1]>>
MaxAbs3(a) == Max2(Abs(a[1]), Max2(Abs(a[2]), Abs(a[3])))

RECURSIVE SqrtStep(_, _, _)
SqrtStep(n, lo, hi) ==
    IF hi - lo <= 1 THEN lo
    ELSE LET mid == (lo + hi) \div 2
         IN IF mid * mid <= n THEN SqrtStep(n, mid, hi) ELSE SqrtStep(n, lo, mid)
\* floor of the square root, for n < 40000 * 40000
ISqrt(n) == SqrtStep(n, 0, 40000)

\* Math.tan(fov / 2) with fov = degrees * PI / 180, in ten-thousandths
TanHalfFov(fovDeg) == IF fovDeg = 45 THEN 4142 ELSE 4663
\* x / Math.tan(fov / 2)
DivTan(x, fovDeg) == (x * 10000) \div TanHalfFov(fovDeg)
\* x * Math.tan(fov / 2)
MulTan(x, fovDeg) == (x * TanHalfFov(fovDeg)) \div 10000

\* ------------------------------------------------------------ THREE.Box3
EmptyBox == [empty |-> TRUE, min |-> Zero3, max |-> Zero3]
MkBox(lo, hi) == [empty |-> FALSE, min |-> lo, max |-> hi]
\* Box3.getSize: an empty box has size (0,0,0)
GetSize(box) == IF box.empty THEN Zero3 ELSE Sub3(box.max, box.min)
\* Box3.getCenter: an empty box has center (0,0,0)
GetCenter(box) ==
    IF box.empty THEN Zero3
    ELSE <<(box.min[1] + box.max[1]) \div 2,
           (box.min[2] + box.max[2]) \div 2,
           (box.min[3] + box.max[3]) \div 2>>
MaxDimOf(box) == LET size == GetSize(box) IN Max2(size[1], Max2(size[2], size[3]))
TranslateBox(box, d) ==
    IF box.empty THEN box ELSE MkBox(Add3(box.min, d), Add3(box.max, d))

NoModel == [present |-> FALSE, box |-> EmptyBox]
MkModel(box) == [present |-> TRUE, box |-> box]

\* the geometries the backend can answer with: their bounding boxes in the
\* geometry's own coordinates (an empty geometry has an empty box)
Geometries ==
    { EmptyBox,
      MkBox(<<Units(-5), Units(-5), Units(-5)>>, <<Units(5), Units(5), Units(5)>>),
      MkBox(<<Units(0), Units(0), Units(0)>>, <<Units(10), Units(10), Units(10)>>),
      MkBox(<<Units(0), Units(0), Units(0)>>, <<Units(10), Units(20), Units(4)>>),
      MkBox(<<Units(0), Units(0), Units(0)>>, <<Units(300), Units(300), Units(300)>>) }

\* the sizes the canvas can take (clientWidth, clientHeight)
CanvasWidths == {0, 400, 800}
CanvasHeights == {0, 600}

\* --------------------------------------------------------- aspect ratios
\* w / h in JavaScript: NaN for 0/0, 0 for 0/h, Infinity for w/0
AspectIsNaN(w, h) == w = 0 /\ h = 0
AspectIsZero(w, h) == w = 0 /\ h # 0
AspectIsInfinite(w, h) == w # 0 /\ h = 0
\* aspect > 1 (false for NaN, true for Infinity)
AspectAboveOne(w, h) == AspectIsInfinite(w, h) \/ (h # 0 /\ w > h)

\* ------------------------------------------------------------ camera pose
MkPose(position, lookAt, target) ==
    [position |-> position, lookAt |-> lookAt, target |-> target]

\* -------------------------------------------------- headless: the fit
\* maxDim / (aspect > 1 ? 2 : 2 * aspect)
DivideByAspect(maxDim, w, h) ==
    IF AspectAboveOne(w, h) THEN maxDim \div 2 ELSE (maxDim * h) \div (2 * w)

\* cameraZ of _fitCameraToModel:
\*   Math.abs((maxDim / (aspect > 1 ? 2 : 2 * aspect)) / Math.tan(fov / 2)) * 1.5
HeadlessCameraZ(maxDim, w, h) ==
    (Abs(DivTan(DivideByAspect(maxDim, w, h), HeadlessFov)) * PaddingNum) \div PaddingDen

\* the guard on the aspect: if (isNaN(aspect) || aspect === 0) return
AspectGuard(w, h) == AspectIsNaN(w, h) \/ AspectIsZero(w, h)

\* faulty variant: the guard on the model is missing, an absent object is
\* measured as an empty box
fitCameraToModelHeadlessNoNullCheck(model, ready, pose, w, h) ==
    IF ~ready \/ AspectGuard(w, h) THEN pose
    ELSE LET box == IF model.present THEN model.box ELSE EmptyBox
             center == GetCenter(box)
             cameraZ == HeadlessCameraZ(MaxDimOf(box), w, h)
         IN MkPose(<<cameraZ, (cameraZ * 7) \div 10, cameraZ>>, center, center)

\* faulty variant: the "upper third" placement the comment above the function
\* describes, the target moved down by a third of the distance
fitCameraToModelHeadlessUpperThird(model, ready, pose, w, h) ==
    IF ~model.present \/ ~ready \/ AspectGuard(w, h) THEN pose
    ELSE LET center == GetCenter(model.box)
             cameraZ == HeadlessCameraZ(MaxDimOf(model.box), w, h)
             targetY == center[2] - cameraZ \div 3
         IN MkPose(<<cameraZ, (cameraZ * 7) \div 10, cameraZ>>,
                   <<center[1], targetY, center[3]>>,
                   <<center[1], targetY, center[3]>>)

\* _fitCameraToModel(model): the pose it leaves. ready: camera, controls and
\* renderer all exist; w, h: renderer.domElement.clientWidth / clientHeight.
fitCameraToModelHeadless(model, ready, pose, w, h) ==
    IF ~model.present \/ ~ready THEN pose
    ELSE LET center == GetCenter(model.box)
             maxDim == MaxDimOf(model.box)
         IN IF AspectGuard(w, h) THEN pose
            ELSE LET cameraZ == HeadlessCameraZ(maxDim, w, h)
                     targetY == center[2]
                 IN MkPose(<<cameraZ, (cameraZ * 7) \div 10, cameraZ>>,
                           <<center[1], targetY, center[3]>>,
                           <<center[1], targetY, center[3]>>)

\* mesh.rotation.x = -Math.PI / 2 (Z-up to Y-up): (x, y, z) -> (x, z, -y)
RotateBox(box) ==
    IF box.empty THEN box
    ELSE MkBox(<<box.min[1], box.min[3], -box.max[2]>>,
               <<box.max[1], box.max[3], -box.min[2]>>)

\* faulty variant: the mesh is not centered
NoCenteringOffset(box) == Zero3

\* the offset loadModel gives the mesh: mesh.position.sub(center)
CenteringOffset(box) == Sub3(Zero3, GetCenter(box))

\* loadModel's success callback up to the fit: the mesh's world bounding box
\* after the rotation and the centering
HeadlessMesh(geometry) ==
    LET box == RotateBox(geometry)
    IN MkModel(TranslateBox(box, CenteringOffset(box)))

\* --------------------------------------------------- asset: the fit
\* OrbitControls.update() keeps the camera between minDistance and maxDistance
ClampDistance(d) == Max2(Units(minDistance), Min2(Units(maxDistance), d))

\* cameraZ of fitCameraToModel: Math.abs(maxDim / 2 / Math.tan(fov / 2)) * 1.5
AssetCameraZ(maxDim) ==
    (Abs(DivTan(maxDim \div 2, AssetFov)) * PaddingNum) \div PaddingDen

\* faulty variant: the camera is placed relative to the orbit target of before
\* the call instead of the center
fitCameraToModelStaleTarget(model, pose) ==
    IF ~model.present THEN pose
    ELSE LET center == GetCenter(model.box)
             cameraZ == ClampDistance(AssetCameraZ(MaxDimOf(model.box)))
         IN MkPose(Add3(pose.target, <<0, 0, cameraZ>>), center, center)

\* faulty variant: the fit returns before it moves the camera
fitCameraToModelKeepsPose(model, pose) == pose

\* fitCameraToModel(): the pose it leaves
fitCameraToModel(model, pose) ==
    IF ~model.present THEN pose
    ELSE LET center == GetCenter(model.box)
             maxDim == MaxDimOf(model.box)
             cameraZ == ClampDistance(AssetCameraZ(maxDim))
         IN MkPose(<<center[1], center[2], center[3] + cameraZ>>, center, center)

\* model.scale.setScalar(100 / maxDim) applied to one coordinate
ScaleCoord(c, maxDim) == DivT(c * AssetTargetSize * 100, maxDim)
ScaleVec(v, maxDim) ==
    <<ScaleCoord(v[1], maxDim), ScaleCoord(v[2], maxDim), ScaleCoord(v[3], maxDim)>>

\* loadSTLModel's success callback up to the fit: geometry.translate(-center),
\* then the scale; the world bounding box of the mesh
AssetMesh(geometry) ==
    IF geometry.empty THEN MkModel(EmptyBox)
    ELSE LET centered == TranslateBox(geometry, Sub3(Zero3, GetCenter(geometry)))
             maxDim == MaxDimOf(geometry)
         IN MkModel(MkBox(ScaleVec(centered.min, maxDim), ScaleVec(centered.max, maxDim)))

\* ------------------------------------------------------------------ state
VARIABLES
    impl,            \* which program runs: "headless" or "asset"
    created,         \* headless: the constructor returned a configurator
    canvas,          \* <<clientWidth, clientHeight>> of the canvas
    scene,           \* headless: "null" (constructed), "partial" (initThreeJS threw
                     \* before the renderer existed), "ready"; asset: always "ready"
    listeners,       \* count: how many resize listeners of this configurator the window
                     \* holds; latest: the closure this.handleResize holds is one of them
    loops,           \* how many animate() loops have a frame scheduled
    rendering,       \* animationFrameId is set
    cameraAspect,    \* the pair camera.aspect was computed from
    rendererSize,    \* the size last given to renderer.setSize
    pose,            \* camera.position, the point the camera looks at, controls.target
    currentModel,    \* currentModel (headless) / model (asset): the mesh's world box
    state,           \* headless: this.state; asset: isDirty and currentPrice
    viewerSettings,  \* headless: this.viewerSettings
    cartBtn,         \* asset: the add-to-cart button (disabled, innerHTML, css class)
    resetTimers,     \* asset: the pending button resets, each with its originalHTML
    observed,        \* what the host saw of the last operation: its argument, its
                     \* result, the requests it sent, the onStateChange calls
    lastOp,          \* the operation that made the last step
    fitsInRow        \* how many steps in a row, up to now, called the fit

vars == <<impl, created, canvas, scene, listeners, loops, rendering, cameraAspect,
          rendererSize, pose, currentModel, state, viewerSettings, cartBtn, resetTimers,
          observed, lastOp, fitsInRow>>

\* the JavaScript value undefined, among the parameter values
Undefined == 0 - 1

ParamNames == {"width", "depth"}
ParamValues == 1..MaxParamValue
\* the defaultValue the backend sends for a parameter
DefaultValueOf(name) == 1
\* names every object inherits from Object.prototype: parameters[name] is a
\* function for them, which is truthy
InheritedNames == {"constructor"}

NoParameters == [n \in {} |-> [value |-> 1, defaultValue |-> 1]]
NoPricing == [known |-> FALSE, total |-> 0]
NoError == "null"

\* the camera as its constructor leaves it: looking down the negative z axis
DefaultLookAt(position) == Sub3(position, <<0, 0, Units(1)>>)
\* initThreeJS: camera.position.set(200, 150, 200)
HeadlessInitialPose ==
    LET position == <<Units(200), Units(150), Units(200)>>
    IN MkPose(position, DefaultLookAt(position), Zero3)
\* setupViewer: camera.position.set(0, 0, 150); animate() runs controls.update()
AssetInitialPose == MkPose(<<0, 0, Units(150)>>, Zero3, Zero3)

\* the state object of the headless constructor
InitialState ==
    [loading |-> FALSE, initialized |-> FALSE, parameters |-> NoParameters,
     pricing |-> NoPricing, modelLoaded |-> FALSE, isDirty |-> FALSE, error |-> NoError]

\* the add-to-cart button of the page
InitialCartBtn(disabled) ==
    [disabled |-> disabled, html |-> "Add to Cart", disabledClass |-> FALSE]

\* the options of a constructor call that has all it requires
FullOptions == [apiBase |-> TRUE, productGid |-> TRUE, canvas |-> TRUE]

\* what an operation hands to its host
Observation(arg, result, requests, notifications, notifiedState) ==
    [arg |-> arg, result |-> result, requests |-> requests,
     notifications |-> notifications, notifiedState |-> notifiedState]

\* everything but created: the fields as the constructors leave them, or,
\* where no configurator was created yet, as the page leaves them
InitWith(impls, widths, heights, autoRotates, buttons) ==
    /\ impl \in impls
    /\ \E w \in widths, h \in heights : canvas = <<w, h>>
    /\ scene = IF impl = "headless" THEN "null" ELSE "ready"
    /\ listeners = [count |-> IF impl = "asset" THEN 1 ELSE 0, latest |-> impl = "asset"]
    /\ loops = IF impl = "asset" THEN 1 ELSE 0
    /\ rendering = (impl = "asset")
    /\ cameraAspect = IF impl = "asset" THEN canvas ELSE <<0, 0>>
    /\ rendererSize = IF impl = "asset" THEN canvas ELSE <<0, 0>>
    /\ pose = IF impl = "asset" THEN AssetInitialPose
              ELSE MkPose(Zero3, Zero3, Zero3)
    /\ currentModel = NoModel
    /\ state = InitialState
    /\ \E a \in autoRotates :
           viewerSettings = [autoRotate |-> (impl = "headless" /\ a), wireframe |-> FALSE]
    /\ \E d \in buttons : cartBtn = InitialCartBtn(impl = "asset" /\ d)
    /\ resetTimers = <<>>
    /\ observed = Observation(FullOptions, IF created THEN "object" ELSE "undefined", <<>>, 0,
                              InitialState)
    /\ lastOp = IF created THEN "construct" ELSE "pageLoad"
    /\ fitsInRow = 0

\* the step counter of consecutive fits
FitCalled == fitsInRow' = Min2(fitsInRow + 1, MaxFitsInRow)
NoFitCalled == fitsInRow' = 0

\* updateState(updates): this.state = { ...this.state, ...updates }
updateState(st, updates) ==
    [f \in DOMAIN st \cup DOMAIN updates |->
        IF f \in DOMAIN updates THEN updates[f] ELSE st[f]]

\* the states onStateChange is called with when updateState is called with
\* each element of calls in turn, starting from st
RECURSIVE StatesNotified(_, _)
StatesNotified(st, calls) ==
    IF Len(calls) = 0 THEN <<>>
    ELSE LET next == updateState(st, Head(calls))
         IN <<next>> \o StatesNotified(next, Tail(calls))

\* this.state after those calls
StateAfter(st, calls) ==
    IF Len(calls) = 0 THEN st
    ELSE LET notified == StatesNotified(st, calls) IN notified[Len(notified)]

\* the operation ran from the state st, called updateState with calls, sent
\* requests and ended with result
Observe(arg, result, requests, st, calls) ==
    observed' = Observation(arg, result, requests, Len(calls),
                            IF Len(calls) = 0 THEN InitialState ELSE StateAfter(st, calls))

\* faulty variant: the error is stored, loading is left as it is
ErrorUpdateKeepsLoading(message) == [error |-> message]

\* handleError(message): updateState({loading: false, error: ...})
ErrorUpdate(message) == [loading |-> FALSE, error |-> message]
handleError(st, message) == updateState(st, ErrorUpdate(message))
\* the first call of initialize, generateModel and addToCart
LoadingUpdate == [loading |-> TRUE, error |-> NoError]

\* loadParameters' conversion: every parameter starts at its defaultValue
LoadedParameters ==
    [n \in ParamNames |-> [value |-> DefaultValueOf(n), defaultValue |-> DefaultValueOf(n)]]

\* ------------------------------------------------ headless: the constructor
\* faulty variant: the canvas is not checked
ConstructorThrowsWithoutCanvasCheck(options) ==
    ~options.apiBase \/ ~options.productGid

\* the three checks at the top of the constructor
ConstructorThrows(options) ==
    ~options.apiBase \/ ~options.productGid \/ ~options.canvas

\* the sets of options a host can pass: each required one present or not
OptionSets == [apiBase : BOOLEAN, productGid : BOOLEAN, canvas : BOOLEAN]

\* new PrinjektConfigurator(options), the canvas having the size w x h
Construct(options, w, h) ==
    /\ impl = "headless"
    /\ ~created
    /\ lastOp' = "construct"
    /\ NoFitCalled
    /\ UNCHANGED <<impl, scene, listeners, loops, rendering, cameraAspect, rendererSize, pose,
                   currentModel, viewerSettings, cartBtn, resetTimers>>
    /\ IF ConstructorThrows(options)
       THEN /\ created' = FALSE
            /\ observed' = Observation(options, "throws", <<>>, 0, InitialState)
            /\ UNCHANGED <<canvas, state>>
       ELSE /\ created' = TRUE
            /\ canvas' = <<w, h>>
            /\ state' = InitialState
            /\ observed' = Observation(options, "object", <<>>, 0, InitialState)

\* ------------------------------------------------------ headless actions
\* initialize(): loadThreeJSLibraries, initThreeJS, loadParameters,
\* startRenderLoop; outcome says which of them fails, if any.  initThreeJS ends
\* by registering a new handleResize closure; startRenderLoop starts a new
\* animate() loop.
Initialize(outcome) ==
    /\ impl = "headless"
    /\ created
    /\ lastOp' = "initialize"
    /\ NoFitCalled
    /\ UNCHANGED <<impl, created, canvas, currentModel, viewerSettings, cartBtn, resetTimers>>
    /\ CASE outcome = "libFail" ->
              LET calls == <<LoadingUpdate, ErrorUpdate("Initialization failed")>>
              IN /\ state' = StateAfter(state, calls)
                 /\ Observe(outcome, "false", <<>>, state, calls)
                 /\ UNCHANGED <<scene, listeners, loops, rendering, cameraAspect,
                                rendererSize, pose>>
         [] outcome = "sceneFail" ->
              \* the scene and the camera are new, new WebGLRenderer throws
              LET calls == <<LoadingUpdate, ErrorUpdate("Initialization failed")>>
              IN /\ scene' = IF scene = "null" THEN "partial" ELSE scene
                 /\ cameraAspect' = canvas
                 /\ UNCHANGED rendererSize
                 /\ pose' = [HeadlessInitialPose EXCEPT !.target = pose.target]
                 /\ state' = StateAfter(state, calls)
                 /\ Observe(outcome, "false", <<>>, state, calls)
                 /\ UNCHANGED <<listeners, loops, rendering>>
         [] outcome = "paramsFail" ->
              \* loadParameters reports the error and rethrows, initialize reports again
              LET calls == <<LoadingUpdate, ErrorUpdate("Failed to load parameters"),
                             ErrorUpdate("Initialization failed")>>
              IN /\ listeners.count < MaxInitializeCalls
                 /\ scene' = "ready"
                 /\ listeners' = [count |-> listeners.count + 1, latest |-> TRUE]
                 /\ cameraAspect' = canvas
                 /\ rendererSize' = canvas
                 /\ pose' = HeadlessInitialPose
                 /\ state' = StateAfter(state, calls)
                 /\ Observe(outcome, "false", <<"get_params">>, state, calls)
                 /\ UNCHANGED <<loops, rendering>>
         [] outcome = "ok" ->
              LET calls == <<LoadingUpdate, [parameters |-> LoadedParameters],
                             [initialized |-> TRUE, loading |-> FALSE]>>
              IN /\ listeners.count < MaxInitializeCalls
                 /\ loops < MaxInitializeCalls
                 /\ scene' = "ready"
                 /\ listeners' = [count |-> listeners.count + 1, latest |-> TRUE]
                 /\ cameraAspect' = canvas
                 /\ rendererSize' = canvas
                 \* startRenderLoop calls animate(): controls.update() looks at the target
                 /\ pose' = [HeadlessInitialPose EXCEPT !.lookAt = Zero3]
                 /\ loops' = loops + 1
                 /\ rendering' = TRUE
                 /\ state' = StateAfter(state, calls)
                 /\ Observe(outcome, "true", <<"get_params">>, state, calls)

\* the resize listener of initThreeJS
handleResize(w, h) ==
    IF w = 0 \/ h = 0
    THEN /\ UNCHANGED <<cameraAspect, rendererSize, pose>>
         /\ NoFitCalled
    ELSE /\ cameraAspect' = <<w, h>>
         /\ rendererSize' = <<w, h>>
         /\ pose' = fitCameraToModelHeadless(currentModel, TRUE, pose, w, h)
         /\ FitCalled

\* onWindowResize of the asset: aspect and renderer size, nothing else
onWindowResize(w, h) ==
    /\ cameraAspect' = <<w, h>>
    /\ rendererSize' = <<w, h>>
    /\ UNCHANGED pose
    /\ NoFitCalled

\* the canvas takes the size w x h and the window fires its resize event, which
\* runs every listener the window still holds
Resize(w, h) ==
    /\ created
    /\ canvas' = <<w, h>>
    /\ lastOp' = "resize"
    /\ UNCHANGED <<impl, created, scene, listeners, loops, rendering, currentModel, state,
                   viewerSettings, cartBtn, resetTimers>>
    /\ Observe("none", "undefined", <<>>, state, <<>>)
    /\ IF impl = "asset" THEN onWindowResize(w, h)
       ELSE IF listeners.count > 0 THEN handleResize(w, h)
       ELSE UNCHANGED <<cameraAspect, rendererSize, pose>> /\ NoFitCalled

\* the updateState call generateModel makes for the X-Calculated-Price header
\* (header < 0: no header)
PricingCalls(header) ==
    IF header < 0 THEN <<>> ELSE <<[pricing |-> [known |-> TRUE, total |-> header]]>>

\* generateModel(): the request, the price, loadModel (centering and fit).
\* outcome: "httpFail" (response not ok), "loadFail" (the DRACO loader fails),
\* "ok"; without a scene loadModel rejects before it touches anything
GenerateModel(geometry, outcome, header) ==
    /\ impl = "headless"
    /\ created
    /\ lastOp' = "generateModel"
    /\ UNCHANGED <<impl, created, canvas, scene, listeners, loops, rendering, cameraAspect,
                   rendererSize, viewerSettings, cartBtn, resetTimers>>
    /\ LET failed == <<ErrorUpdate("Failed to generate model")>>
           request == <<"generate_stl">>
       IN CASE outcome = "httpFail" ->
                 LET calls == <<LoadingUpdate>> \o failed
                 IN /\ state' = StateAfter(state, calls)
                    /\ Observe(outcome, "false", request, state, calls)
                    /\ UNCHANGED <<currentModel, pose>>
                    /\ NoFitCalled
            [] outcome # "httpFail" /\ scene = "null" ->
                 LET calls == <<LoadingUpdate>> \o PricingCalls(header) \o failed
                 IN /\ state' = StateAfter(state, calls)
                    /\ Observe(outcome, "false", request, state, calls)
                    /\ UNCHANGED <<currentModel, pose>>
                    /\ NoFitCalled
            [] outcome = "loadFail" /\ scene # "null" ->
                 LET calls == <<LoadingUpdate>> \o PricingCalls(header) \o failed
                 IN /\ state' = StateAfter(state, calls)
                    /\ Observe(outcome, "false", request, state, calls)
                    /\ currentModel' = NoModel
                    /\ UNCHANGED pose
                    /\ NoFitCalled
            [] outcome = "ok" /\ scene # "null" ->
                 LET calls == <<LoadingUpdate>> \o PricingCalls(header) \o
                              <<[loading |-> FALSE, modelLoaded |-> TRUE, isDirty |-> FALSE]>>
                 IN /\ currentModel' = HeadlessMesh(geometry)
                    /\ pose' = fitCameraToModelHeadless(currentModel', scene = "ready", pose,
                                                        canvas[1], canvas[2])
                    /\ FitCalled
                    /\ state' = StateAfter(state, calls)
                    /\ Observe(outcome, "true", request, state, calls)

\* destroy(): stopRenderLoop cancels the frame whose id animationFrameId holds,
\* removeEventListener removes the closure this.handleResize holds, the model is
\* taken out of the scene, renderer and controls are disposed; no field is
\* cleared
Destroy ==
    /\ impl = "headless"
    /\ created
    /\ lastOp' = "destroy"
    /\ NoFitCalled
    /\ loops' = IF rendering THEN loops - 1 ELSE loops
    /\ rendering' = FALSE
    /\ listeners' = IF listeners.latest
                    THEN [count |-> listeners.count - 1, latest |-> FALSE]
                    ELSE listeners
    /\ Observe("none", "undefined", <<>>, state, <<>>)
    /\ UNCHANGED <<impl, created, canvas, scene, cameraAspect, rendererSize, pose,
                   currentModel, state, viewerSettings, cartBtn, resetTimers>>

\* ---------------------------------------------------------- asset actions
\* updatePreview(): price, loadSTLModel (centering, scaling and fit), then the
\* dirty flag and the cart button; "noStl": the answer has no stl_url
UpdatePreview(geometry, outcome, price) ==
    /\ impl = "asset"
    /\ lastOp' = "updatePreview"
    /\ UNCHANGED <<impl, created, canvas, scene, listeners, loops, rendering, cameraAspect,
                   rendererSize, viewerSettings, resetTimers>>
    /\ LET request == <<"preview">>
           priced == [state EXCEPT !.pricing = [known |-> TRUE, total |-> price]]
           enabled == [cartBtn EXCEPT !.disabledClass = FALSE, !.disabled = FALSE]
       IN CASE outcome = "httpFail" ->
                 /\ UNCHANGED <<state, currentModel, pose, cartBtn>>
                 /\ Observe(outcome, "error", request, state, <<>>)
                 /\ NoFitCalled
            [] outcome = "loadFail" ->
                 /\ state' = priced
                 /\ UNCHANGED <<currentModel, pose, cartBtn>>
                 /\ Observe(outcome, "error", request, state, <<>>)
                 /\ NoFitCalled
            [] outcome = "noStl" ->
                 /\ state' = [priced EXCEPT !.isDirty = FALSE]
                 /\ cartBtn' = enabled
                 /\ UNCHANGED <<currentModel, pose>>
                 /\ Observe(outcome, "undefined", request, state, <<>>)
                 /\ NoFitCalled
            [] outcome = "ok" ->
                 /\ currentModel' = AssetMesh(geometry)
                 /\ pose' = fitCameraToModel(currentModel', pose)
                 /\ FitCalled
                 /\ state' = [priced EXCEPT !.isDirty = FALSE]
                 /\ cartBtn' = enabled
                 /\ Observe(outcome, "undefined", request, state, <<>>)

\* the zoom-to-fit button
ZoomFit ==
    /\ impl = "asset"
    /\ lastOp' = "zoomFit"
    /\ pose' = fitCameraToModel(currentModel, pose)
    /\ FitCalled
    /\ Observe("none", "undefined", <<>>, state, <<>>)
    /\ UNCHANGED <<impl, created, canvas, scene, listeners, loops, rendering, cameraAspect,
                   rendererSize, currentModel, state, viewerSettings, cartBtn, resetTimers>>

\* markDirty(): an input of the parameter form changed
MarkDirty ==
    /\ impl = "asset"
    /\ lastOp' = "markDirty"
    /\ NoFitCalled
    /\ state' = [state EXCEPT !.isDirty = TRUE]
    /\ cartBtn' = [cartBtn EXCEPT !.disabledClass = TRUE]
    /\ Observe("none", "undefined", <<>>, state, <<>>)
    /\ UNCHANGED <<impl, created, canvas, scene, listeners, loops, rendering, cameraAspect,
                   rendererSize, pose, currentModel, viewerSettings, resetTimers>>

\* !this.currentPrice is false: a price was stored and it is not 0
PricePresent(pricing) == pricing.known /\ pricing.total # 0

\* faulty variant: the dirty flag is not looked at
CartBlockedIgnoringDirty(st) == ~PricePresent(st.pricing)

\* the two early returns of the asset's addToCart
CartBlocked(st) == st.isDirty \/ ~PricePresent(st.pricing)

\* addToCart() of the asset, run by a click on the cart button (a disabled
\* button fires no click).  outcome: "noVariant" (the form has no id),
\* "cartFail" (/cart/add.js answers not ok), "ok".  The catch block reads
\* originalHTML, which is declared inside the try block: it throws before it
\* resets the button.
AssetAddToCart(outcome) ==
    /\ impl = "asset"
    /\ ~cartBtn.disabled
    /\ lastOp' = "addToCart"
    /\ NoFitCalled
    /\ UNCHANGED <<impl, created, canvas, scene, listeners, loops, rendering, cameraAspect,
                   rendererSize, pose, currentModel, state, viewerSettings>>
    /\ IF CartBlocked(state)
       THEN /\ UNCHANGED <<cartBtn, resetTimers>>
            /\ Observe("none", "alert", <<>>, state, <<>>)
       ELSE CASE outcome = "noVariant" ->
                   /\ cartBtn' = [cartBtn EXCEPT !.disabled = TRUE, !.html = "Adding..."]
                   /\ UNCHANGED resetTimers
                   /\ Observe("none", "throws", <<>>, state, <<>>)
              [] outcome = "cartFail" ->
                   /\ cartBtn' = [cartBtn EXCEPT !.disabled = TRUE, !.html = "Adding..."]
                   /\ UNCHANGED resetTimers
                   /\ Observe("none", "throws", <<"/cart/add.js">>, state, <<>>)
              [] outcome = "ok" ->
                   /\ Len(resetTimers) < MaxResetTimers
                   /\ cartBtn' = [cartBtn EXCEPT !.disabled = TRUE, !.html = "Added to Cart"]
                   /\ resetTimers' = Append(resetTimers, cartBtn.html)
                   /\ Observe("none", "undefined", <<"/cart/add.js">>, state, <<>>)

\* the timer addToCart sets after a success: the button gets its originalHTML
\* back and is enabled
ResetCartButton ==
    /\ impl = "asset"
    /\ Len(resetTimers) > 0
    /\ lastOp' = "resetCartButton"
    /\ NoFitCalled
    /\ cartBtn' = [cartBtn EXCEPT !.html = Head(resetTimers), !.disabled = FALSE]
    /\ resetTimers' = Tail(resetTimers)
    /\ Observe("none", "undefined", <<>>, state, <<>>)
    /\ UNCHANGED <<impl, created, canvas, scene, listeners, loops, rendering, cameraAspect,
                   rendererSize, pose, currentModel, state, viewerSettings>>

\* ------------------------------------------------- the orbit collaborator
\* where a drag, a wheel or a pan can leave the camera and the target
OrbitPoses ==
    { MkPose(<<Units(120), Units(80), Units(-60)>>, Zero3, Zero3),
      MkPose(<<Units(30), Units(40), Units(200)>>, <<Units(30), 0, 0>>, <<Units(30), 0, 0>>) }

\* pointer input on the canvas, handled by OrbitControls
Orbit(p) ==
    /\ scene = "ready"
    /\ lastOp' = "orbit"
    /\ pose' = p
    /\ NoFitCalled
    /\ Observe("none", "undefined", <<>>, state, <<>>)
    /\ UNCHANGED <<impl, created, canvas, scene, listeners, loops, rendering, cameraAspect,
                   rendererSize, currentModel, state, viewerSettings, cartBtn, resetTimers>>

\* controls.update() over some hundred frames: the camera looks at the target,
\* and with autoRotate it has gone half way round it
ControlsUpdate(p, autoRotate) ==
    LET offset == Sub3(p.position, p.target)
        position == IF autoRotate
                    THEN Add3(p.target, <<-offset[1], offset[2], -offset[3]>>)
                    ELSE p.position
    IN MkPose(position, p.target, p.target)

\* animate(): a frame of a render loop; it schedules the next one
Animate ==
    /\ loops > 0
    /\ lastOp' = "animate"
    /\ rendering' = TRUE
    /\ pose' = ControlsUpdate(pose, viewerSettings.autoRotate)
    /\ NoFitCalled
    /\ Observe("none", "undefined", <<>>, state, <<>>)
    /\ UNCHANGED <<impl, created, canvas, scene, listeners, loops, cameraAspect,
                   rendererSize, currentModel, state, viewerSettings, cartBtn, resetTimers>>

\* ------------------------------------------- headless: parameters and cart
\* this.state.parameters[name] is truthy: an own parameter, or a name that
\* plain objects inherit
HasParameter(parameters, name) ==
    name \in DOMAIN parameters \/ name \in InheritedNames

\* { ...parameters[name] }: the parameter's fields; an inherited function has
\* no field to copy
ParameterAt(parameters, name) ==
    IF name \in DOMAIN parameters THEN parameters[name]
    ELSE [value |-> Undefined, defaultValue |-> Undefined]

\* updateParameter's copy: parameters[name] = { ...parameters[name], value }
WithValue(parameters, name, value) ==
    [n \in DOMAIN parameters \cup {name} |->
        IF n = name THEN [ParameterAt(parameters, name) EXCEPT !.value = value]
        ELSE parameters[n]]

\* param.value !== undefined ? param.value : param.defaultValue
EffectiveValue(param) ==
    IF param.value # Undefined THEN param.value ELSE param.defaultValue

\* getParameterValues()
getParameterValues(parameters) ==
    [n \in DOMAIN parameters |-> EffectiveValue(parameters[n])]

\* updateParameter(name, value)
UpdateParameter(name, value) ==
    /\ impl = "headless"
    /\ created
    /\ lastOp' = "updateParameter"
    /\ NoFitCalled
    /\ LET calls == IF HasParameter(state.parameters, name)
                    THEN <<[parameters |-> WithValue(state.parameters, name, value),
                            isDirty |-> TRUE]>>
                    ELSE <<>>
       IN /\ state' = StateAfter(state, calls)
          /\ Observe(<<name, value>>, IF Len(calls) = 0 THEN "false" ELSE "true", <<>>, state, calls)
    /\ UNCHANGED <<impl, created, canvas, scene, listeners, loops, rendering, cameraAspect,
                   rendererSize, pose, currentModel, viewerSettings, cartBtn, resetTimers>>

\* faulty variant: the values are left as they are
ResetValuesKeepingThem(parameters) == parameters

\* resetParameters' loop: parameters[key].value = parameters[key].defaultValue
ResetValues(parameters) ==
    [n \in DOMAIN parameters |->
        [parameters[n] EXCEPT !.value = parameters[n].defaultValue]]

\* faulty variant: the reset also puts the camera back where initThreeJS put it
ResetParametersAndCamera ==
    /\ impl = "headless"
    /\ created
    /\ lastOp' = "resetParameters"
    /\ NoFitCalled
    /\ LET written == [state EXCEPT !.parameters = ResetValues(state.parameters)]
           calls == <<[parameters |-> written.parameters, isDirty |-> TRUE]>>
       IN /\ state' = StateAfter(written, calls)
          /\ Observe("none", "undefined", <<>>, written, calls)
    /\ pose' = HeadlessInitialPose
    /\ UNCHANGED <<impl, created, canvas, scene, listeners, loops, rendering, cameraAspect,
                   rendererSize, currentModel, viewerSettings, cartBtn, resetTimers>>

\* faulty variant: the loop writes the defaults into the state's parameter
\* objects and updateState is never called
ResetParametersSilently ==
    /\ impl = "headless"
    /\ created
    /\ lastOp' = "resetParameters"
    /\ NoFitCalled
    /\ state' = [state EXCEPT !.parameters = ResetValues(state.parameters)]
    /\ Observe("none", "undefined", <<>>, state, <<>>)
    /\ UNCHANGED <<impl, created, canvas, scene, listeners, loops, rendering, cameraAspect,
                   rendererSize, pose, currentModel, viewerSettings, cartBtn, resetTimers>>

\* resetParameters(): the loop writes through the copied object into the
\* parameter objects of this.state, then updateState is called
ResetParameters ==
    /\ impl = "headless"
    /\ created
    /\ lastOp' = "resetParameters"
    /\ NoFitCalled
    /\ LET written == [state EXCEPT !.parameters = ResetValues(state.parameters)]
           calls == <<[parameters |-> written.parameters, isDirty |-> TRUE]>>
       IN /\ state' = StateAfter(written, calls)
          /\ Observe("none", "undefined", <<>>, written, calls)
    /\ UNCHANGED <<impl, created, canvas, scene, listeners, loops, rendering, cameraAspect,
                   rendererSize, pose, currentModel, viewerSettings, cartBtn, resetTimers>>

\* the names a saved configuration can carry, loaded parameters or not
SavedNames == ParamNames \cup {"other"}
\* a saved parameter as getCurrentConfig writes it
SavedParams == { [value |-> v, defaultValue |-> DefaultValueOf("width")] : v \in ParamValues }
\* the saved configurations loadConfiguration can be given
SavedConfigs ==
    { c \in UNION { [S -> SavedParams] : S \in SUBSET SavedNames } :
          "other" \in DOMAIN c => c["other"].value = 1 }

\* faulty variant: the saved entry carries the default in place of the value
CurrentConfigParametersFromDefaults(parameters) ==
    [n \in DOMAIN parameters |->
        [value |-> parameters[n].defaultValue,
         defaultValue |-> parameters[n].defaultValue]]

\* getCurrentConfig().parameters: for every parameter its value (the default
\* where the value is undefined) and its defaultValue
CurrentConfigParameters(parameters) ==
    [n \in DOMAIN parameters |->
        [value |-> EffectiveValue(parameters[n]),
         defaultValue |-> parameters[n].defaultValue]]

\* savedParam.value !== undefined ? savedParam.value : savedParam.defaultValue
SavedValue(savedParam) ==
    IF savedParam.value # Undefined THEN savedParam.value ELSE savedParam.defaultValue

\* loadConfiguration's loop: for every saved key that is a parameter,
\* updatedParams[key].value = the saved value.  A key that is only inherited
\* passes the test too, but the write lands on the inherited function and not
\* in the state.
LoadedValues(parameters, saved) ==
    [n \in DOMAIN parameters |->
        IF n \in DOMAIN saved
        THEN [parameters[n] EXCEPT !.value = SavedValue(saved[n])]
        ELSE parameters[n]]

\* loadConfiguration(parameters); given = FALSE stands for a null argument
LoadConfiguration(given, saved) ==
    /\ impl = "headless"
    /\ created
    /\ lastOp' = "loadConfiguration"
    /\ NoFitCalled
    /\ LET written == IF given
                      THEN [state EXCEPT !.parameters = LoadedValues(state.parameters, saved)]
                      ELSE state
           calls == IF given THEN <<[parameters |-> written.parameters, isDirty |-> TRUE]>>
                    ELSE <<>>
           arg == IF ~given THEN "null"
                  ELSE IF saved = CurrentConfigParameters(state.parameters) THEN "current"
                  ELSE "saved"
       IN /\ state' = StateAfter(written, calls)
          /\ Observe(arg, IF given THEN "true" ELSE "false", <<>>, written, calls)
    /\ UNCHANGED <<impl, created, canvas, scene, listeners, loops, rendering, cameraAspect,
                   rendererSize, pose, currentModel, viewerSettings, cartBtn, resetTimers>>

\* getCurrentConfig(): reads the state, changes nothing
GetCurrentConfig ==
    /\ impl = "headless"
    /\ created
    /\ lastOp' = "getCurrentConfig"
    /\ NoFitCalled
    /\ Observe("none", "config", <<>>, state, <<>>)
    /\ UNCHANGED <<impl, created, canvas, scene, listeners, loops, rendering, cameraAspect,
                   rendererSize, pose, currentModel, state, viewerSettings, cartBtn,
                   resetTimers>>

\* updateViewerSetting(setting, value)
UpdateViewerSetting(setting, value) ==
    /\ impl = "headless"
    /\ created
    /\ lastOp' = "updateViewerSetting"
    /\ NoFitCalled
    /\ viewerSettings' = [viewerSettings EXCEPT ![setting] = value]
    /\ Observe("none", "undefined", <<>>, state, <<>>)
    /\ UNCHANGED <<impl, created, canvas, scene, listeners, loops, rendering, cameraAspect,
                   rendererSize, pose, currentModel, state, cartBtn, resetTimers>>

\* faulty variant: /cart/add.js is sent whatever create_variant answered
CartRequestsWithoutWaiting(outcome, drawer) ==
    <<"create_variant", "/cart/add.js">>
    \o (IF outcome \in {"variantFail", "cartFail"} THEN <<>> ELSE <<"/cart.js">>)

\* the requests addToCart and updateCartCount send: each one only after the
\* one before answered ok; after /cart.js the sections of the theme
CartRequests(outcome, drawer) ==
    <<"create_variant">>
    \o (IF outcome = "variantFail" THEN <<>>
        ELSE <<"/cart/add.js">>
             \o (IF outcome = "cartFail" THEN <<>>
                 ELSE <<"/cart.js">>
                      \o (IF outcome = "countFail" THEN <<>>
                          ELSE <<"/?sections=cart-icon-bubble">>
                               \o (IF drawer THEN <<"/?sections=cart-drawer">>
                                   ELSE <<>>))))

\* addToCart() of the headless library: create_variant, /cart/add.js, then
\* updateCartCount, which catches its own errors; outcome names the request
\* that fails, if any; drawer: the page has a cart-drawer element
AddToCart(outcome, drawer) ==
    /\ impl = "headless"
    /\ created
    /\ lastOp' = "addToCart"
    /\ NoFitCalled
    /\ LET calls == IF outcome \in {"variantFail", "cartFail"}
                    THEN <<LoadingUpdate, ErrorUpdate("Failed to add to cart")>>
                    ELSE <<LoadingUpdate, [loading |-> FALSE]>>
           result == IF outcome \in {"variantFail", "cartFail"} THEN "throws" ELSE "cartData"
       IN /\ state' = StateAfter(state, calls)
          /\ Observe(outcome, result, CartRequests(outcome, drawer), state, calls)
    /\ UNCHANGED <<impl, created, canvas, scene, listeners, loops, rendering, cameraAspect,
                   rendererSize, pose, currentModel, viewerSettings, cartBtn, resetTimers>>

\* ----------------------------------------------------------- specification
InitOutcomes == {"libFail", "sceneFail", "paramsFail", "ok"}
LoadOutcomes == {"httpFail", "loadFail", "ok"}
PreviewOutcomes == LoadOutcomes \cup {"noStl"}
CartOutcomes == {"variantFail", "cartFail", "countFail", "ok"}
PageCartOutcomes == {"noVariant", "cartFail", "ok"}
PriceHeaders == {-1, 5}
Prices == {0, 5}
ViewerSettingNames == {"autoRotate", "wireframe"}

\* initialize() where at most one call gets as far as registering the resize
\* listener; a second listener and a second render loop on the same
\* configurator are left to SpecLife
InitializeFresh(outcome) ==
    /\ outcome \in {"paramsFail", "ok"} => listeners.count = 0
    /\ Initialize(outcome)

\* the viewer of both programs, with every geometry and every canvas size
Init ==
    /\ created = TRUE
    /\ InitWith({"headless", "asset"}, CanvasWidths, CanvasHeights, {FALSE}, {FALSE})

ViewerNext ==
    \/ \E o \in InitOutcomes : InitializeFresh(o)
    \/ \E w \in CanvasWidths, h \in CanvasHeights : Resize(w, h)
    \/ \E g \in Geometries, o \in LoadOutcomes, p \in PriceHeaders : GenerateModel(g, o, p)
    \/ \E g \in Geometries, o \in PreviewOutcomes, p \in Prices : UpdatePreview(g, o, p)
    \/ ZoomFit
    \/ \E p \in OrbitPoses : Orbit(p)
    \/ Animate

Next == ViewerNext

Spec == Init /\ [][Next]_vars

\* the headless library as its host drives it: parameters, settings, cart,
\* one geometry and the non-zero canvas sizes
AppGeometries ==
    { MkBox(<<Units(0), Units(0), Units(0)>>, <<Units(10), Units(20), Units(4)>>) }
AppWidths == CanvasWidths \ {0}
AppHeights == CanvasHeights \ {0}

\* the saved configurations the host of SpecApp loads: at most one entry each
AppSavedConfigs == { c \in SavedConfigs : Cardinality(DOMAIN c) <= 1 }

\* the viewer setting the host of SpecApp switches: the one the camera depends on
AppSettingNames == {"autoRotate"}

AppInit ==
    /\ created = TRUE
    /\ InitWith({"headless"}, AppWidths, AppHeights, {FALSE}, {FALSE})

AppNext ==
    \/ \E o \in InitOutcomes : InitializeFresh(o)
    \/ \E w \in AppWidths, h \in AppHeights : Resize(w, h)
    \/ \E g \in AppGeometries, o \in LoadOutcomes, p \in PriceHeaders : GenerateModel(g, o, p)
    \/ \E p \in OrbitPoses : Orbit(p)
    \/ Animate
    \/ \E n \in SavedNames, v \in ParamValues : UpdateParameter(n, v)
    \/ ResetParameters
    \/ \E given \in BOOLEAN, saved \in AppSavedConfigs : LoadConfiguration(given, saved)
    \/ GetCurrentConfig
    \/ \E k \in AppSettingNames, v \in BOOLEAN : UpdateViewerSetting(k, v)
    \/ \E o \in CartOutcomes : AddToCart(o, FALSE)

SpecApp == AppInit /\ [][AppNext]_vars

\* the parameters of the headless library with every kind of name and value a
\* host can pass: names that are parameters, a name that is none, a name plain
\* objects inherit; values, undefined among them
HostNames == SavedNames \cup InheritedNames
HostValues == ParamValues \cup {Undefined}
HostSavedParams ==
    { [value |-> v, defaultValue |-> d] :
          v \in HostValues, d \in {DefaultValueOf("width"), Undefined} }
HostSavedConfigs ==
    UNION { [S -> HostSavedParams] :
                S \in {{}, {"width"}, {"other"}, InheritedNames} }

ParamsInit ==
    /\ created = TRUE
    /\ InitWith({"headless"}, {800}, {600}, {FALSE}, {FALSE})

ParamsNext ==
    \/ \E o \in InitOutcomes : InitializeFresh(o)
    \/ \E g \in AppGeometries, o \in LoadOutcomes, p \in PriceHeaders : GenerateModel(g, o, p)
    \/ \E n \in HostNames, v \in HostValues : UpdateParameter(n, v)
    \/ ResetParameters
    \/ \E given \in BOOLEAN,
          saved \in HostSavedConfigs \cup {CurrentConfigParameters(state.parameters)} :
              LoadConfiguration(given, saved)
    \/ GetCurrentConfig
    \/ \E o \in CartOutcomes : AddToCart(o, TRUE)

SpecParams == ParamsInit /\ [][ParamsNext]_vars

\* the life of a headless configurator: construction, initialize and
\* generateModel in any order and number, the window's resize events, the
\* render loop, destroy
LifeInit ==
    /\ created = FALSE
    /\ InitWith({"headless"}, {0}, {0}, {FALSE}, {FALSE})

LifeNext ==
    \/ \E o \in OptionSets, w \in AppWidths, h \in AppHeights : Construct(o, w, h)
    \/ \E o \in InitOutcomes : Initialize(o)
    \/ \E g \in AppGeometries, o \in LoadOutcomes, p \in PriceHeaders : GenerateModel(g, o, p)
    \/ \E w \in AppWidths, h \in AppHeights : Resize(w, h)
    \/ Animate
    \/ Destroy

SpecLife == LifeInit /\ [][LifeNext]_vars

\* the page of the asset: the parameter form, the preview, the cart button
CartInit ==
    /\ created = TRUE
    /\ InitWith({"asset"}, {800}, {600}, {FALSE}, BOOLEAN)

CartNext ==
    \/ \E g \in AppGeometries, o \in PreviewOutcomes, p \in Prices : UpdatePreview(g, o, p)
    \/ MarkDirty
    \/ \E o \in PageCartOutcomes : AssetAddToCart(o)
    \/ ResetCartButton

SpecCart == CartInit /\ [][CartNext]_vars

TypeOK ==
    /\ impl \in {"headless", "asset"}
    /\ created \in BOOLEAN
    /\ canvas \in CanvasWidths \X CanvasHeights
    /\ scene \in {"null", "partial", "ready"}
    /\ listeners.count \in 0..MaxInitializeCalls
    /\ loops \in 0..MaxInitializeCalls
    /\ rendering \in BOOLEAN
    /\ currentModel.present \in BOOLEAN
    /\ Len(resetTimers) \in 0..MaxResetTimers
    /\ fitsInRow \in 0..MaxFitsInRow

\* ------------------------------------------------------- the view frustum
\* the field of view of the running program's camera
CameraFov == IF impl = "headless" THEN HeadlessFov ELSE AssetFov

Scale3(a, k) == <<DivT(a[1], k), DivT(a[2], k), DivT(a[3], k)>>
\* a vector of length 1000 along a (a # 0, components below 40000 * 1000)
Normalize(a) ==
    LET small == Scale3(a, Max2(1, MaxAbs3(a) \div 1000))
        n == ISqrt(Dot3(small, small))
    IN <<DivT(small[1] * 1000, n), DivT(small[2] * 1000, n), DivT(small[3] * 1000, n)>>

\* the point q is inside the frustum of a perspective camera at p.position that
\* looks at p.lookAt with up = (0, 1, 0), aspect w / h, near 0.1 and far 1000
InFrustum(q, p, w, h, fovDeg) ==
    LET forward == Sub3(p.lookAt, p.position)
        right == Cross3(forward, <<0, 1, 0>>)
    IN /\ w # 0 /\ h # 0
       /\ MaxAbs3(forward) # 0
       /\ MaxAbs3(right) # 0
       /\ LET f == Normalize(forward)
              r == Normalize(right)
              u == Scale3(Cross3(r, f), 1000)
              v == Sub3(q, p.position)
              depth == DivT(Dot3(v, f), 1000)
              halfHeight == MulTan(depth, fovDeg)
              halfWidth == (halfHeight * w) \div h
          IN /\ depth >= Units(1) \div 10
             /\ depth <= Units(CameraFar)
             /\ Abs(DivT(Dot3(v, u), 1000)) <= halfHeight
             /\ Abs(DivT(Dot3(v, r), 1000)) <= halfWidth

BoxCorners(box) ==
    { <<x, y, z>> : x \in {box.min[1], box.max[1]},
                    y \in {box.min[2], box.max[2]},
                    z \in {box.min[3], box.max[3]} }

\* every corner of the loaded object's box is inside the camera's frustum
BoxInFrustum ==
    \A q \in BoxCorners(currentModel.box) :
        InFrustum(q, pose, cameraAspect[1], cameraAspect[2], CameraFov)

\* ------------------------------------------------ what the claims speak of
ObjectCenter == GetCenter(currentModel.box)
ObjectMaxDim == MaxDimOf(currentModel.box)
ViewportIsZero == canvas[1] = 0 \/ canvas[2] = 0
\* the step into this state called the fit operation
FitWasCalled == fitsInRow >= 1
\* ... and none of the no-op conditions held: a viewer exists, an object is
\* loaded, its box has a positive size, the viewport is not zero
FitApplied ==
    /\ FitWasCalled
    /\ scene = "ready"
    /\ currentModel.present
    /\ ObjectMaxDim > 0
    /\ ~ViewportIsZero

\* the scale of the camera's offset from the center: cameraZ
UsedDistance ==
    IF impl = "headless" THEN pose.position[1] - ObjectCenter[1]
    ELSE pose.position[3] - ObjectCenter[3]

\* 1.5 * |maxDim / (aspect > 1 ? 2 : 2 * aspect) / tan(fov / 2)|
FormulaDistance(maxDim, w, h, fovDeg) ==
    LET perAspect == IF w > h THEN maxDim \div 2 ELSE (maxDim * h) \div (2 * w)
    IN (Abs(DivTan(perAspect, fovDeg)) * 3) \div 2

\* the viewing direction of each program, in tenths
ViewDirection == IF impl = "headless" THEN <<10, 7, 10>> ELSE <<0, 0, 10>>

\* ------------------------------------------------------------------ claims

\* C1: a fit called with no object (no model loaded yet) leaves the camera
\* position, the look-at point and the orbit target as they were, in both
\* programs.
C1_NoObjectNoChange ==
    [][(fitsInRow' >= 1 /\ ~currentModel'.present) => pose' = pose]_vars

\* C1 witness: the fit was called while nothing was loaded.
C1_Witness ==
    /\ FitWasCalled
    /\ ~currentModel.present
    /\ scene = "ready"
    /\ lastOp \in {"resize", "zoomFit"}

\* C2 (as claimed): a fit called with a loaded model while the viewport width
\* or the viewport height is 0 leaves the camera pose unchanged.
C2_ZeroViewportNoChange ==
    [][(/\ fitsInRow' >= 1
        /\ currentModel'.present
        /\ (canvas'[1] = 0 \/ canvas'[2] = 0)) => pose' = pose]_vars

\* C3 (as claimed): after a fit that is not a no-op every corner of the
\* object's bounding box is inside the camera's view frustum.
C3_BoxInsideFrustum == FitApplied => BoxInFrustum

\* C4: a second fit in a row, with the object and the viewport unchanged,
\* leaves the pose the first one left.
C4_FitIdempotent ==
    [][(/\ fitsInRow' >= 2
        /\ currentModel' = currentModel
        /\ canvas' = canvas) => pose' = pose]_vars

\* C4 witness: two fits in a row were applied to a loaded object.
C4_Witness ==
    /\ fitsInRow >= 2
    /\ FitApplied
    /\ lastOp \in {"resize", "zoomFit"}

\* C5 (as claimed): after a fit that is not a no-op the camera distance is
\* 1.5 * |maxDim / (aspect > 1 ? 2 : 2 * aspect) / tan(fov / 2)|.
C5_DistanceFormula ==
    FitApplied =>
        UsedDistance = FormulaDistance(ObjectMaxDim, canvas[1], canvas[2], CameraFov)

ExpectedOffset ==
    LET d == IF impl = "headless"
             THEN HeadlessCameraZ(ObjectMaxDim, canvas[1], canvas[2])
             ELSE AssetCameraZ(ObjectMaxDim)
    IN <<(d * ViewDirection[1]) \div 10,
         (d * ViewDirection[2]) \div 10,
         (d * ViewDirection[3]) \div 10>>

\* C7: after a fit that is not a no-op the camera position minus the center of
\* the bounding box is the viewing direction times the distance, which depends
\* on the object's size and the viewport only, not on where the geometry's
\* center was.
C7_OffsetFromCenter ==
    FitApplied => Sub3(pose.position, ObjectCenter) = ExpectedOffset

\* C7 witness: the headless fit was applied to a cube of side 10, which both
\* the centered and the off-center geometry give.
C7_Witness ==
    /\ FitApplied
    /\ impl = "headless"
    /\ GetSize(currentModel.box) = <<Units(10), Units(10), Units(10)>>
    /\ pose.position[1] > 0

\* C8 (as claimed): a resize to a non-zero size with an object loaded
\* recomputes the camera's aspect, calls the fit, and leaves the camera at the
\* formula's distance for the new aspect, looking at the object's center.
C8_ResizeRefits ==
    [][(/\ lastOp' = "resize"
        /\ scene = "ready"
        /\ canvas'[1] # 0 /\ canvas'[2] # 0
        /\ currentModel.present
        /\ ObjectMaxDim > 0)
       => (/\ cameraAspect' = canvas'
           /\ fitsInRow' >= 1
           /\ UsedDistance' =
                  FormulaDistance(ObjectMaxDim, canvas'[1], canvas'[2], CameraFov)
           /\ pose'.lookAt = ObjectCenter
           /\ pose'.target = ObjectCenter)]_vars

\* C9 (as claimed): a fit called with an object whose bounding box has size
\* zero, or under a zero aspect, leaves the camera pose unchanged.
C9_DegenerateNoChange ==
    [][(/\ fitsInRow' >= 1
        /\ currentModel'.present
        /\ (\/ MaxDimOf(currentModel'.box) = 0
            \/ AspectIsZero(canvas'[1], canvas'[2]))) => pose' = pose]_vars

\* C10: updateParameter, resetParameters, loadConfiguration, getCurrentConfig,
\* updateViewerSetting, addToCart and a generateModel that fails leave the
\* camera position, the look-at point and the orbit target unchanged.
C10_OnlyFitAndOrbitMoveCamera ==
    [][(\/ lastOp' \in {"updateParameter", "resetParameters", "loadConfiguration",
                        "getCurrentConfig", "updateViewerSetting", "addToCart"}
        \/ (lastOp' = "generateModel" /\ state'.error # NoError)) => pose' = pose]_vars

\* C10 witness: a generateModel failed after the camera had been fitted.
C10_Witness ==
    /\ lastOp = "generateModel"
    /\ state.error # NoError
    /\ scene = "ready"
    /\ pose.position # HeadlessInitialPose.position

C12_ConstructorValidates ==
    lastOp = "construct" =>
        IF observed.arg.apiBase /\ observed.arg.productGid /\ observed.arg.canvas
        THEN /\ created
             /\ observed.result = "object"
             /\ ~state.loading /\ ~state.initialized /\ ~state.modelLoaded
             /\ ~state.isDirty /\ state.error = NoError
             /\ DOMAIN state.parameters = {}
             /\ ~state.pricing.known
        ELSE /\ ~created
             /\ observed.result = "throws"

\* C12 witness: a constructor call with apiBase and productGid but no canvas
\* has thrown.
C12_Witness ==
    /\ lastOp = "construct"
    /\ observed.arg.apiBase /\ observed.arg.productGid /\ ~observed.arg.canvas
    /\ observed.result = "throws"
    /\ ~created

\* C13 (as claimed): updateParameter(name, value) with a name that is not a
\* loaded parameter returns false, leaves the state unchanged and notifies
\* nobody; with a loaded name it returns true, sets that parameter's value,
\* sets isDirty and leaves the other parameters' values unchanged.
C13_UpdateParameterContract ==
    [][lastOp' = "updateParameter" =>
          LET name == observed'.arg[1]
              value == observed'.arg[2]
          IN IF name \notin DOMAIN state.parameters
             THEN /\ observed'.result = "false"
                  /\ state' = state
                  /\ observed'.notifications = 0
             ELSE /\ observed'.result = "true"
                  /\ state'.parameters[name].value = value
                  /\ state'.isDirty
                  /\ \A n \in DOMAIN state.parameters \ {name} :
                         state'.parameters[n].value = state.parameters[n].value]_vars

\* C14: after resetParameters() every parameter's value is its defaultValue,
\* getParameterValues returns the defaults, isDirty is true and the parameter
\* names are those of before, whatever was done before.
C14_ResetGivesDefaults ==
    [][lastOp' = "resetParameters" =>
          (/\ \A n \in DOMAIN state'.parameters :
                  /\ state'.parameters[n].value = state'.parameters[n].defaultValue
                  /\ getParameterValues(state'.parameters)[n] =
                         state'.parameters[n].defaultValue
           /\ state'.isDirty
           /\ DOMAIN state'.parameters = DOMAIN state.parameters)]_vars

\* C14 witness: the parameters were reset after a model had been generated
\* from them.
C14_Witness ==
    /\ lastOp = "resetParameters"
    /\ ParamNames \subseteq DOMAIN state.parameters
    /\ state.modelLoaded
    /\ state.isDirty

\* C15: loadConfiguration(getCurrentConfig().parameters) returns true and
\* leaves every parameter's value, as getParameterValues reports it, as it was;
\* loadConfiguration with any object returns true, sets isDirty and adds no
\* parameter; with null it returns false, leaves the state unchanged and
\* notifies nobody.
C15_SaveLoadRoundTrip ==
    [][lastOp' = "loadConfiguration" =>
          (/\ observed'.arg = "null" =>
                  (/\ observed'.result = "false"
                   /\ state' = state
                   /\ observed'.notifications = 0)
           /\ observed'.arg # "null" =>
                  (/\ observed'.result = "true"
                   /\ state'.isDirty
                   /\ DOMAIN state'.parameters = DOMAIN state.parameters)
           /\ observed'.arg = "current" =>
                  getParameterValues(state'.parameters) =
                      getParameterValues(state.parameters))]_vars

\* C15 witness: the current configuration was loaded back while a parameter
\* was away from its default.
C15_Witness ==
    /\ lastOp = "loadConfiguration"
    /\ observed.arg = "current"
    /\ observed.result = "true"
    /\ \E n \in DOMAIN state.parameters :
           /\ state.parameters[n].defaultValue # Undefined
           /\ EffectiveValue(state.parameters[n]) # state.parameters[n].defaultValue

\* C16: an operation that changes a field of the state calls onStateChange,
\* and the state of the last call of an operation is the state getState()
\* returns after it.
C16_StateChangesAreNotified ==
    [][(/\ state' # state => observed'.notifications >= 1
        /\ observed'.notifications >= 1 => observed'.notifiedState = state')]_vars

\* C16 witness: resetParameters, which writes into the state's parameter
\* objects before it calls updateState, has changed a value and notified once.
C16_Witness ==
    /\ lastOp = "resetParameters"
    /\ observed.notifications = 1
    /\ observed.notifiedState = state
    /\ ParamNames \subseteq DOMAIN state.parameters
    /\ state.isDirty

\* C17: the asset's addToCart, run while the parameters are dirty or while no
\* price was obtained, sends no request and leaves the cart button, its
\* pending resets and the state as they were.
C17_DirtyOrUnpricedBlocksCart ==
    [][(/\ lastOp' = "addToCart"
        /\ impl = "asset"
        /\ (state.isDirty \/ ~state.pricing.known))
       => (/\ observed'.requests = <<>>
           /\ cartBtn' = cartBtn
           /\ resetTimers' = resetTimers
           /\ state' = state
           /\ currentModel' = currentModel
           /\ pose' = pose)]_vars

\* C17 witness: the cart button was clicked while the parameters were dirty
\* and a price was there.
C17_Witness ==
    /\ lastOp = "addToCart"
    /\ impl = "asset"
    /\ state.isDirty
    /\ PricePresent(state.pricing)
    /\ observed.result = "alert"

\* C18: the headless addToCart sends create_variant first, /cart/add.js second
\* and only when create_variant answered ok, /cart.js third and only when
\* /cart/add.js answered ok; when only the cart count fails it returns the
\* cart data with loading = false and no error; when one of the first two
\* fails it sets the error, sets loading = false and throws.
C18_CartRequestOrder ==
    (lastOp = "addToCart" /\ impl = "headless") =>
        LET requests == observed.requests
            failed == observed.arg \in {"variantFail", "cartFail"}
        IN /\ requests[1] = "create_variant"
           /\ \A i \in 1..Len(requests) :
                  /\ requests[i] = "create_variant" => i = 1
                  /\ requests[i] = "/cart/add.js" => (i = 2 /\ observed.arg # "variantFail")
                  /\ requests[i] = "/cart.js" => (i = 3 /\ ~failed)
           /\ ~failed => (/\ Len(requests) >= 3
                          /\ observed.result = "cartData"
                          /\ ~state.loading
                          /\ state.error = NoError)
           /\ failed => (/\ observed.result = "throws"
                         /\ ~state.loading
                         /\ state.error # NoError)

\* C18 witness: an addToCart whose cart-count request failed.
C18_Witness ==
    /\ lastOp = "addToCart"
    /\ impl = "headless"
    /\ observed.arg = "countFail"
    /\ observed.result = "cartData"
    /\ Len(observed.requests) = 3

\* C19 (as claimed): destroy() leaves no animation frame scheduled and
\* animationFrameId null, and once it has removed the resize listener a window
\* resize changes neither the camera pose nor the renderer size, whatever
\* initialize and generateModel calls came before.
C19_DestroyStopsEverything ==
    [][(/\ lastOp' = "destroy" => (loops' = 0 /\ ~rendering')
        /\ (lastOp' = "resize" /\ scene = "ready" /\ ~listeners.latest)
               => (pose' = pose /\ rendererSize' = rendererSize))]_vars

\* C20: initialize() returns true with initialized = true and loading = false
\* when the libraries, the scene and the parameters all succeed; when one of
\* them fails it returns false, initialized is what it was (false stays
\* false), loading is false, the error is set and no render loop is started.
C20_InitializeOutcome ==
    [][lastOp' = "initialize" =>
          IF observed'.arg = "ok"
          THEN /\ observed'.result = "true"
               /\ state'.initialized
               /\ ~state'.loading
          ELSE /\ observed'.result = "false"
               /\ state'.initialized = state.initialized
               /\ ~state'.loading
               /\ state'.error # NoError
               /\ loops' = loops
               /\ rendering' = rendering]_vars

\* C20 witness: a first initialize() failed at the parameters: the viewer is
\* there, the render loop is not.
C20_Witness ==
    /\ lastOp = "initialize"
    /\ observed.arg = "paramsFail"
    /\ observed.result = "false"
    /\ ~state.initialized
    /\ scene = "ready"
    /\ loops = 0

====
